---- MODULE Spec2Model ----
(***************************************************************************)
(* Model of the CubeMars AK80-64 motor control code: the fixed-point codec *)
(* (float_to_uint / uint_to_float), the mode commands, pack_cmd and        *)
(* unpack_reply of motor.py.                                               *)
(*                                                                         *)
(* Python floats are modelled as exact rationals [num, den] in lowest      *)
(* terms.  Every input the model draws is a dyadic rational with a small   *)
(* denominator, for which the IEEE-754 double operations of the code       *)
(* (subtraction of the offset, multiplication by 4095.0 / 65535.0) are     *)
(* exact and the single rounded division cannot cross an integer, so       *)
(* int(...) of the double equals the truncation of the exact quotient.     *)
(***************************************************************************)
EXTENDS Integers, Sequences, FiniteSets, TLC

\* ------------------------------------------------------------------------
\* Bounds of the model
\* ------------------------------------------------------------------------

\* the codec inputs divide each channel range into GridN equal parts
GridN == 16

\* how many grid steps below min and above max the codec inputs go
Over == 4

\* number of calls of the motor.py functions in one run
MaxCalls == 3

\* number of times the application opens the bus in one run
MaxSessions == 2

\* ------------------------------------------------------------------------
\* Float arithmetic as exact rationals
\* ------------------------------------------------------------------------

RECURSIVE GCD(_, _)
GCD(a, b) == IF b = 0 THEN a ELSE GCD(b, a % b)

Abs(n) == IF n < 0 THEN -n ELSE n

\* the float n/d, d > 0, in lowest terms
Rat(n, d) ==
    LET g == GCD(Abs(n), d)
    IN  [num |-> n \div g, den |-> d \div g]

RatAdd(a, b) == Rat(a.num * b.den + b.num * a.den, a.den * b.den)

RatSub(a, b) == Rat(a.num * b.den - b.num * a.den, a.den * b.den)

RatNeg(a) == [num |-> -a.num, den |-> a.den]

RatMul(a, b) == Rat(a.num * b.num, a.den * b.den)

\* a / b for b > 0
RatDiv(a, b) == Rat(a.num * b.den, a.den * b.num)

RatLT(a, b) == a.num * b.den < b.num * a.den

RatLE(a, b) == a.num * b.den <= b.num * a.den

RatAbs(a) == [num |-> Abs(a.num), den |-> a.den]

\* the float nan
NaN == [num |-> 0, den |-> 0]

IsNaN(a) == a.den = 0

\* Python min(a, b): b if b < a else a; a comparison with nan is False, so a
\* nan first argument is returned
PyMin(a, b) == IF RatLT(b, a) THEN b ELSE a

\* Python max(a, b): b if b > a else a
PyMax(a, b) == IF RatLT(a, b) THEN b ELSE a

\* Python float(n) of an int
ToFloat(n) == [num |-> n, den |-> 1]

\* Python int(x) of a float: truncation toward zero
PyInt(a) ==
    IF a.num >= 0 THEN a.num \div a.den ELSE -((-a.num) \div a.den)

\* ------------------------------------------------------------------------
\* constants.py
\* ------------------------------------------------------------------------

P_MIN == Rat(-25, 2)

P_MAX == Rat(25, 2)

V_MIN == ToFloat(-8)

V_MAX == ToFloat(8)

KP_MIN == ToFloat(0)

KP_MAX == ToFloat(500)

KD_MIN == ToFloat(0)

KD_MAX == ToFloat(5)

T_MIN == ToFloat(-144)

T_MAX == ToFloat(144)

CONTROLLER_ID == 23

\* ------------------------------------------------------------------------
\* motor.py: the fixed-point codec
\* ------------------------------------------------------------------------

\* a plausible slip: round to nearest instead of int()'s truncation
float_to_uint_rounding(x, x_min, x_max, bits) ==
    LET span   == RatSub(x_max, x_min)
        offset == x_min
        half   == Rat(1, 2)
    IN  IF bits = 12
        THEN PyInt(RatAdd(RatDiv(RatMul(RatSub(x, offset), ToFloat(4095)), span), half))
        ELSE IF bits = 16
        THEN PyInt(RatAdd(RatDiv(RatMul(RatSub(x, offset), ToFloat(65535)), span), half))
        ELSE 0

\* a plausible slip: scale by 2^bits instead of 2^bits - 1
float_to_uint_pow2(x, x_min, x_max, bits) ==
    LET span   == RatSub(x_max, x_min)
        offset == x_min
    IN  IF bits = 12
        THEN PyInt(RatDiv(RatMul(RatSub(x, offset), ToFloat(4096)), span))
        ELSE IF bits = 16
        THEN PyInt(RatDiv(RatMul(RatSub(x, offset), ToFloat(65536)), span))
        ELSE 0

float_to_uint(x, x_min, x_max, bits) ==
    LET span   == RatSub(x_max, x_min)
        offset == x_min
    IN  IF bits = 12
        THEN PyInt(RatDiv(RatMul(RatSub(x, offset), ToFloat(4095)), span))
        ELSE IF bits = 16
        THEN PyInt(RatDiv(RatMul(RatSub(x, offset), ToFloat(65535)), span))
        ELSE 0

\* a plausible slip: the offset is not added back
uint_to_float_no_offset(x_int, x_min, x_max, bits) ==
    LET span == RatSub(x_max, x_min)
    IN  IF bits = 12
        THEN RatDiv(RatMul(ToFloat(x_int), span), ToFloat(4095))
        ELSE IF bits = 16
        THEN RatDiv(RatMul(ToFloat(x_int), span), ToFloat(65535))
        ELSE ToFloat(0)

uint_to_float(x_int, x_min, x_max, bits) ==
    LET span   == RatSub(x_max, x_min)
        offset == x_min
    IN  IF bits = 12
        THEN RatAdd(RatDiv(RatMul(ToFloat(x_int), span), ToFloat(4095)), offset)
        ELSE IF bits = 16
        THEN RatAdd(RatDiv(RatMul(ToFloat(x_int), span), ToFloat(65535)), offset)
        ELSE ToFloat(0)

\* ------------------------------------------------------------------------
\* The channel table of constants.py
\* ------------------------------------------------------------------------

Channels == {"position", "velocity", "kp", "kd", "torque"}

Lo(ch) ==
    CASE ch = "position" -> P_MIN
      [] ch = "velocity" -> V_MIN
      [] ch = "kp"       -> KP_MIN
      [] ch = "kd"       -> KD_MIN
      [] ch = "torque"   -> T_MIN

Hi(ch) ==
    CASE ch = "position" -> P_MAX
      [] ch = "velocity" -> V_MAX
      [] ch = "kp"       -> KP_MAX
      [] ch = "kd"       -> KD_MAX
      [] ch = "torque"   -> T_MAX

\* the bit widths float_to_uint / uint_to_float are called with (12, 16),
\* and one they do not support
Widths == {8, 12, 16}

\* pack_cmd without its "Constrain values" step
Constrain_none(x, x_min, x_max) == x

\* pack_cmd, "Constrain values": max(min(x, X_MAX), X_MIN)
Constrain(x, x_min, x_max) == PyMax(PyMin(x, x_max), x_min)

\* ------------------------------------------------------------------------
\* State
\* ------------------------------------------------------------------------

VARIABLES
    motor_state,  \* the MotorState record: p_in .. t_in, p_out .. t_out
    op,           \* the motor.py function called last
    argBus,       \* the bus argument of that call: "None" or "bus"
    ret,          \* what the call returned: "True", "False", or "raise"
    sends,        \* the messages the call handed to bus.send, in order
    sendRaised,   \* whether bus.send raised in that call
    argMsg,       \* the msg argument of the last unpack_reply call
    ncalls,       \* number of calls made so far
    cch,          \* codec run: channel whose range is used
    cbits,        \* codec run: bits argument
    cin,          \* codec run: the float the run started from
    cx,           \* codec run: the float handed to float_to_uint
    cclamped,     \* codec run: whether cx went through Constrain
    cstage,       \* codec run: "idle", "input", "encoded", "decoded"
    cenc,         \* codec run: result of float_to_uint
    cdec,         \* codec run: result of uint_to_float
    connected,    \* MotorControlApp.connected
    app_bus,      \* MotorControlApp.bus: 0 for None, else the Bus object opened k-th
    stop_thread,  \* MotorControlApp.stop_thread
    status_thread,\* MotorControlApp.status_thread: 0 for None, else the Thread started k-th
    mainPc,       \* where the main (UI) thread is: "idle" between handlers
    nsess,        \* number of Bus objects opened so far
    busShut,      \* per Bus object, the number of shutdown() calls made on it
    shutRaised,   \* whether the last shutdown() call raised
    tpc,          \* per Thread, its position in status_update_thread
    tbus,         \* per Thread, the Bus object its pending recv was issued on
    tmsg,         \* per Thread, the message unpack_reply is storing
    recvLog,      \* "none", "status" (every recv so far returned the test_status_update reply), "mixed"
    iterated,     \* whether some poller iteration has decoded a reply completely
    continuous_active, \* MotorControlApp.continuous_active
    continuous_event,  \* MotorControlApp.continuous_event: 0 for None, else a Clock event
    clock,        \* the Clock: interval of every scheduled, not cancelled event
    dPending,     \* whether an update_status_display call is scheduled on the Clock
    dRead,        \* the motor_state fields update_status_display has read so far
    shown,        \* the arguments of the last status_display.update_values call
    interval_text, \* continuous_checkbox.text
    sliders       \* the values of the five sliders

motorVars == <<motor_state, op, argBus, ret, sends, sendRaised, argMsg, ncalls>>

codecVars == <<cch, cbits, cin, cx, cclamped, cstage, cenc, cdec>>

sessVars == <<connected, app_bus, stop_thread, status_thread, mainPc, nsess, busShut, shutRaised>>

pollVars == <<tpc, tbus, tmsg, recvLog, iterated>>

schedVars == <<continuous_active, continuous_event, clock>>

dispVars == <<dPending, dRead, shown>>

uiVars == <<interval_text, sliders>>

appVars == <<sessVars, pollVars, schedVars, dispVars, uiVars>>

vars == <<motor_state, op, argBus, ret, sends, sendRaised, argMsg, ncalls,
          cch, cbits, cin, cx, cclamped, cstage, cenc, cdec,
          connected, app_bus, stop_thread, status_thread, mainPc, nsess, busShut, shutRaised,
          tpc, tbus, tmsg, recvLog, iterated,
          continuous_active, continuous_event, clock,
          dPending, dRead, shown,
          interval_text, sliders>>

\* ------------------------------------------------------------------------
\* The codec on its own: float_to_uint and uint_to_float applied to inputs
\* in and around each channel range
\* ------------------------------------------------------------------------

\* x_min + k * span / GridN
GridPoint(ch, k) ==
    RatAdd(Lo(ch), RatDiv(RatMul(ToFloat(k), RatSub(Hi(ch), Lo(ch))), ToFloat(GridN)))

\* (x_min + x_max) / 2, as the unit tests compute the middle value
Middle(ch) == RatDiv(RatAdd(Lo(ch), Hi(ch)), ToFloat(2))

CodecInputs(ch) ==
    {GridPoint(ch, k) : k \in (0 - Over) .. (GridN + Over)}
        \cup {Lo(ch), Hi(ch), Middle(ch)}

CodecIdle ==
    /\ cch = "position"
    /\ cbits = 12
    /\ cin = ToFloat(0)
    /\ cx = ToFloat(0)
    /\ cclamped = FALSE
    /\ cstage = "idle"
    /\ cenc = 0
    /\ cdec = ToFloat(0)

\* the caller constrains the value first, as pack_cmd does
CodecConstrain ==
    /\ cstage = "input"
    /\ ~cclamped
    /\ cx' = Constrain(cx, Lo(cch), Hi(cch))
    /\ cclamped' = TRUE
    /\ UNCHANGED <<cch, cbits, cin, cstage, cenc, cdec>>
    /\ UNCHANGED motorVars
    /\ UNCHANGED appVars

CodecEncode ==
    /\ cstage = "input"
    /\ cenc' = float_to_uint(cx, Lo(cch), Hi(cch), cbits)
    /\ cstage' = "encoded"
    /\ UNCHANGED <<cch, cbits, cin, cx, cclamped, cdec>>
    /\ UNCHANGED motorVars
    /\ UNCHANGED appVars

CodecDecode ==
    /\ cstage = "encoded"
    /\ cdec' = uint_to_float(cenc, Lo(cch), Hi(cch), cbits)
    /\ cstage' = "decoded"
    /\ UNCHANGED <<cch, cbits, cin, cx, cclamped, cenc>>
    /\ UNCHANGED motorVars
    /\ UNCHANGED appVars

\* ------------------------------------------------------------------------
\* motor.py: MotorState, the mode commands, pack_cmd, unpack_reply
\* ------------------------------------------------------------------------

\* MotorState.__init__
MotorState ==
    [p_in  |-> ToFloat(0), v_in  |-> ToFloat(0), kp_in |-> ToFloat(0),
     kd_in |-> Rat(1, 2),  t_in  |-> ToFloat(0),
     p_out |-> ToFloat(0), v_out |-> ToFloat(0), t_out |-> ToFloat(0)]

\* can.Message(arbitration_id=..., data=..., is_extended_id=...)
Message(id, bytes, extended) ==
    [arbitration_id |-> id, data |-> bytes, is_extended_id |-> extended]

\* without the try / except around bus.send
TrySend_propagate(msg, raises) ==
    [ret |-> IF raises THEN "raise" ELSE "True", sends |-> <<msg>>]

\* try: bus.send(msg); return True / except: return False
TrySend(msg, raises) ==
    [ret |-> IF raises THEN "False" ELSE "True", sends |-> <<msg>>]

\* a plausible slip: the enter command carries the exit byte 0xFD
enter_mode_exit_byte(bus, raises) ==
    IF bus = "None"
    THEN [ret |-> "False", sends |-> <<>>]
    ELSE TrySend(Message(CONTROLLER_ID,
                         <<255, 255, 255, 255, 255, 255, 255, 253>>, FALSE),
                 raises)

enter_mode(bus, raises) ==
    IF bus = "None"
    THEN [ret |-> "False", sends |-> <<>>]
    ELSE TrySend(Message(CONTROLLER_ID,
                         <<255, 255, 255, 255, 255, 255, 255, 252>>, FALSE),
                 raises)

exit_mode(bus, raises) ==
    IF bus = "None"
    THEN [ret |-> "False", sends |-> <<>>]
    ELSE TrySend(Message(CONTROLLER_ID,
                         <<255, 255, 255, 255, 255, 255, 255, 253>>, FALSE),
                 raises)

zero_position(bus, raises) ==
    IF bus = "None"
    THEN [ret |-> "False", sends |-> <<>>]
    ELSE TrySend(Message(CONTROLLER_ID,
                         <<255, 255, 255, 255, 255, 255, 255, 254>>, FALSE),
                 raises)

\* 2^n
RECURSIVE Pow2(_)
Pow2(n) == IF n = 0 THEN 1 ELSE 2 * Pow2(n - 1)

\* Python x >> n (floor, also for negative x)
Shr(x, n) == x \div Pow2(n)

\* Python x << n
Shl(x, n) == x * Pow2(n)

\* Python x & (2^n - 1), non-negative also for negative x
Mask(x, n) == x % Pow2(n)

\* Python a | b; with a negative operand the result is negative
RECURSIVE BitOr(_, _)
BitOr(a, b) ==
    IF a < 0 \/ b < 0 THEN -1
    ELSE IF a = 0 THEN b
    ELSE IF b = 0 THEN a
    ELSE (IF (a % 2 = 1) \/ (b % 2 = 1) THEN 1 ELSE 0)
             + 2 * BitOr(a \div 2, b \div 2)

\* a plausible slip: the low nibble of vel and of kd is not shifted up, so it
\* lands on the high bits of kp and of torque
pack_buf_unshifted(ms) ==
    LET p_int  == float_to_uint(Constrain(ms.p_in, P_MIN, P_MAX), P_MIN, P_MAX, 16)
        v_int  == float_to_uint(Constrain(ms.v_in, V_MIN, V_MAX), V_MIN, V_MAX, 12)
        kp_int == float_to_uint(Constrain(ms.kp_in, KP_MIN, KP_MAX), KP_MIN, KP_MAX, 12)
        kd_int == float_to_uint(Constrain(ms.kd_in, KD_MIN, KD_MAX), KD_MIN, KD_MAX, 12)
        t_int  == float_to_uint(Constrain(ms.t_in, T_MIN, T_MAX), T_MIN, T_MAX, 12)
    IN  << Shr(p_int, 8),
           Mask(p_int, 8),
           Shr(v_int, 4),
           BitOr(Mask(v_int, 4), Shr(kp_int, 8)),
           Mask(kp_int, 8),
           Shr(kd_int, 4),
           BitOr(Mask(kd_int, 4), Shr(t_int, 8)),
           Mask(t_int, 8) >>

\* pack_cmd up to "Pack into buffer": the eight values assigned to buf[0..7]
pack_buf(ms) ==
    LET p_des  == Constrain(ms.p_in, P_MIN, P_MAX)
        v_des  == Constrain(ms.v_in, V_MIN, V_MAX)
        kp     == Constrain(ms.kp_in, KP_MIN, KP_MAX)
        kd     == Constrain(ms.kd_in, KD_MIN, KD_MAX)
        t_ff   == Constrain(ms.t_in, T_MIN, T_MAX)
        p_int  == float_to_uint(p_des, P_MIN, P_MAX, 16)
        v_int  == float_to_uint(v_des, V_MIN, V_MAX, 12)
        kp_int == float_to_uint(kp, KP_MIN, KP_MAX, 12)
        kd_int == float_to_uint(kd, KD_MIN, KD_MAX, 12)
        t_int  == float_to_uint(t_ff, T_MIN, T_MAX, 12)
    IN  << Shr(p_int, 8),
           Mask(p_int, 8),
           Shr(v_int, 4),
           BitOr(Shl(Mask(v_int, 4), 4), Shr(kp_int, 8)),
           Mask(kp_int, 8),
           Shr(kd_int, 4),
           BitOr(Shl(Mask(kd_int, 4), 4), Shr(t_int, 8)),
           Mask(t_int, 8) >>

\* a bytearray item must be in range(0, 256), else the store raises ValueError
ByteOk(b) == b >= 0 /\ b <= 255

\* a constrained setpoint that is nan: int() in float_to_uint raises
\* ValueError, outside the try of pack_cmd
Unconvertible(ms) ==
    \/ IsNaN(Constrain(ms.p_in, P_MIN, P_MAX))
    \/ IsNaN(Constrain(ms.v_in, V_MIN, V_MAX))
    \/ IsNaN(Constrain(ms.kp_in, KP_MIN, KP_MAX))
    \/ IsNaN(Constrain(ms.kd_in, KD_MIN, KD_MAX))
    \/ IsNaN(Constrain(ms.t_in, T_MIN, T_MAX))

pack_cmd(bus, ms, raises) ==
    IF bus = "None"
    THEN [ret |-> "False", sends |-> <<>>]
    ELSE IF Unconvertible(ms)
    THEN [ret |-> "raise", sends |-> <<>>]
    ELSE LET buf == pack_buf(ms)
         IN  IF \E i \in 1..8 : ~ByteOk(buf[i])
             THEN [ret |-> "raise", sends |-> <<>>]
             ELSE TrySend(Message(CONTROLLER_ID, buf, FALSE), raises)

\* the msg argument None of unpack_reply
NoneMsg == [is_none |-> TRUE, data |-> <<>>]

\* a received can.Message with the given data
Reply(bytes) == [is_none |-> FALSE, data |-> bytes]

\* buf[i] of a bytearray, i from 0
Byte(buf, i) == buf[i + 1]

\* the three assignments to motor_state of unpack_reply
Decoded(ms, p_int, v_int, i_int) ==
    [ms EXCEPT !.p_out = uint_to_float(p_int, P_MIN, P_MAX, 16),
               !.v_out = uint_to_float(v_int, V_MIN, V_MAX, 12),
               !.t_out = uint_to_float(i_int, RatNeg(T_MAX), T_MAX, 12)]

\* a plausible slip: each field is stored as soon as its bytes are read, so
\* an IndexError on a later byte leaves the earlier fields updated
unpack_reply_interleaved(msg, ms) ==
    IF msg.is_none
    THEN [ret |-> "False", state |-> ms]
    ELSE LET buf == msg.data
             n   == Len(buf)
         IN  IF n < 3
             THEN [ret |-> "False", state |-> ms]
             ELSE LET p_int == BitOr(Shl(Byte(buf, 1), 8), Byte(buf, 2))
                      ms1 == [ms EXCEPT !.p_out = uint_to_float(p_int, P_MIN, P_MAX, 16)]
                  IN  IF n < 5
                      THEN [ret |-> "False", state |-> ms1]
                      ELSE LET v_int == BitOr(Shl(Byte(buf, 3), 4), Shr(Byte(buf, 4), 4))
                               ms2 == [ms1 EXCEPT !.v_out = uint_to_float(v_int, V_MIN, V_MAX, 12)]
                           IN  IF n < 6
                               THEN [ret |-> "False", state |-> ms2]
                               ELSE LET i_int == BitOr(Shl(Mask(Byte(buf, 4), 4), 8), Byte(buf, 5))
                                    IN  [ret |-> "True",
                                         state |-> Decoded(ms, p_int, v_int, i_int)]

\* a plausible slip: the velocity takes the low nibble of buf[4], the nibble
\* that belongs to the torque
unpack_reply_low_nibble(msg, ms) ==
    IF msg.is_none \/ Len(msg.data) < 6
    THEN [ret |-> "False", state |-> ms]
    ELSE LET buf == msg.data
             p_int == BitOr(Shl(Byte(buf, 1), 8), Byte(buf, 2))
             v_int == BitOr(Shl(Byte(buf, 3), 4), Mask(Byte(buf, 4), 4))
             i_int == BitOr(Shl(Mask(Byte(buf, 4), 4), 8), Byte(buf, 5))
         IN  [ret |-> "True", state |-> Decoded(ms, p_int, v_int, i_int)]

\* unpack_reply: the try body reads buf[0], buf[1], buf[2], buf[3], buf[4],
\* buf[5] in this order before the first store; a read past the end raises
\* IndexError, which the bare except turns into return False
unpack_reply(msg, ms) ==
    IF msg.is_none
    THEN [ret |-> "False", state |-> ms]
    ELSE LET buf == msg.data
             n   == Len(buf)
         IN  IF n < 1          \* id_received = buf[0]
             THEN [ret |-> "False", state |-> ms]
             ELSE IF n < 3     \* p_int = (buf[1] << 8) | buf[2]
             THEN [ret |-> "False", state |-> ms]
             ELSE IF n < 5     \* v_int = (buf[3] << 4) | (buf[4] >> 4)
             THEN [ret |-> "False", state |-> ms]
             ELSE IF n < 6     \* i_int = ((buf[4] & 0xF) << 8) | buf[5]
             THEN [ret |-> "False", state |-> ms]
             ELSE LET p_int == BitOr(Shl(Byte(buf, 1), 8), Byte(buf, 2))
                      v_int == BitOr(Shl(Byte(buf, 3), 4), Shr(Byte(buf, 4), 4))
                      i_int == BitOr(Shl(Mask(Byte(buf, 4), 4), 8), Byte(buf, 5))
                  IN  [ret |-> "True", state |-> Decoded(ms, p_int, v_int, i_int)]

\* ------------------------------------------------------------------------
\* app.py: the state of MotorControlApp after __init__ and build()
\* ------------------------------------------------------------------------

\* the Bus objects, and the poller Threads: the k-th successful connect opens
\* Bus k and starts Thread k
Sessions == 1 .. MaxSessions

\* the Clock events toggle_continuous can have scheduled at one time
EventIds == {1, 2}

\* nothing read yet / update_values not called yet
NoTriple == <<>>

\* build(): the value of each LabeledSlider, named by the MotorState field
\* the handlers copy it to
SliderDefaults ==
    [p_in |-> ToFloat(0), v_in |-> ToFloat(0), kp_in |-> ToFloat(0),
     kd_in |-> Rat(1, 2), t_in |-> ToFloat(0)]

AppInit ==
    /\ connected = FALSE
    /\ app_bus = 0
    /\ stop_thread = FALSE
    /\ status_thread = 0
    /\ mainPc = "idle"
    /\ nsess = 0
    /\ busShut = [b \in Sessions |-> 0]
    /\ shutRaised = FALSE
    /\ tpc = [t \in Sessions |-> "none"]
    /\ tbus = [t \in Sessions |-> 0]
    /\ tmsg = [t \in Sessions |-> NoneMsg]
    /\ recvLog = "none"
    /\ iterated = FALSE
    /\ continuous_active = FALSE
    /\ continuous_event = 0
    /\ clock = [e \in EventIds |-> [kind |-> "off", val |-> ToFloat(0)]]
    /\ dPending = FALSE
    /\ dRead = NoTriple
    /\ shown = NoTriple
    /\ interval_text = "0.1"
    /\ sliders = SliderDefaults

\* ------------------------------------------------------------------------
\* Calls of the motor.py functions, as the unit tests and the application
\* make them
\* ------------------------------------------------------------------------

\* the five setpoints of a MotorState
Setpoints(ms) ==
    [p_in |-> ms.p_in, v_in |-> ms.v_in, kp_in |-> ms.kp_in,
     kd_in |-> ms.kd_in, t_in |-> ms.t_in]

\* the three measured values of a MotorState
Telemetry(ms) == <<ms.p_out, ms.v_out, ms.t_out>>

SetpointField(ch) ==
    CASE ch = "position" -> "p_in"
      [] ch = "velocity" -> "v_in"
      [] ch = "kp"       -> "kp_in"
      [] ch = "kd"       -> "kd_in"
      [] ch = "torque"   -> "t_in"

\* test_pack_cmd: p_in = 5.0, v_in = 2.0, kp_in = 100.0, kd_in = 2.0, t_in = 10.0
TestSetpoints ==
    [p_in |-> ToFloat(5), v_in |-> ToFloat(2), kp_in |-> ToFloat(100),
     kd_in |-> ToFloat(2), t_in |-> ToFloat(10)]

\* test_pack_cmd, second call: p_in = 20.0 (above P_MAX), v_in = -10.0 (below V_MIN)
TestSetpointsOver ==
    [TestSetpoints EXCEPT !.p_in = ToFloat(20), !.v_in = ToFloat(-10)]

\* values written to one setpoint: the ends of its range, values inside it,
\* and values below and above it
SetpointValues(ch) ==
    {Lo(ch), Hi(ch), GridPoint(ch, 5),
     GridPoint(ch, 0 - 1), GridPoint(ch, 0 - Over),
     GridPoint(ch, GridN + 1), GridPoint(ch, GridN + Over)}

\* every setpoint at the top of its range except the torque, which is t
AllMax(t) ==
    [p_in |-> P_MAX, v_in |-> V_MAX, kp_in |-> KP_MAX, kd_in |-> KD_MAX,
     t_in |-> t]

\* torques just below T_MAX: 143.8, 143.9, 143.95, and T_MAX itself
TopTorques == {Rat(719, 5), Rat(1439, 10), Rat(14395, 100), T_MAX}

SetpointInputs ==
    {TestSetpoints, TestSetpointsOver, Setpoints(MotorState)}
        \cup {AllMax(t) : t \in TopTorques}
        \cup UNION {{[b EXCEPT ![SetpointField(ch)] = v] :
                        b \in {TestSetpoints, Setpoints(MotorState)},
                        v \in SetpointValues(ch)} : ch \in Channels}

\* test_unpack_reply
TestReply == Reply(<<0, 128, 0, 8, 0, 8, 0, 0>>)

\* test_status_update
TestStatusReply == Reply(<<0, 192, 0, 12, 0, 12, 0, 0>>)

ReplyInputs ==
    {NoneMsg, TestReply, TestStatusReply,
     Reply(<<23, 128, 0, 128, 8, 0>>),
     Reply(<<255, 255, 255, 255, 255, 255, 255, 255>>),
     Reply(<<23, 1, 2, 3, 4, 5, 6>>),
     Reply(<<>>), Reply(<<23>>), Reply(<<23, 128, 0>>),
     Reply(<<23, 128, 0, 128>>), Reply(<<23, 128, 0, 128, 8>>),
     Reply(<<255, 128, 0, 8, 0, 8, 255, 255>>),
     Reply(<<23, 128, 0, 8, 0, 8>>),
     Reply(<<23, 18, 52, 86, 120, 154>>)}

Buses == {"None", "bus"}

\* the harness writes the setpoints (unit_test.py, on_send_command)
SetSetpoints ==
    \E sp \in SetpointInputs :
        /\ motor_state' = [motor_state EXCEPT !.p_in = sp.p_in, !.v_in = sp.v_in,
                                               !.kp_in = sp.kp_in, !.kd_in = sp.kd_in,
                                               !.t_in = sp.t_in]
        /\ op' = "set"
        /\ argBus' = "None"
        /\ ret' = "none"
        /\ sends' = <<>>
        /\ sendRaised' = FALSE
        /\ argMsg' = NoneMsg
        /\ UNCHANGED ncalls
        /\ UNCHANGED codecVars
        /\ UNCHANGED appVars

\* the common part of a call that may send: r is what the function computed
Returned(name, bus, raises, r) ==
    /\ ncalls < MaxCalls
    /\ op' = name
    /\ argBus' = bus
    /\ ret' = r.ret
    /\ sends' = r.sends
    /\ sendRaised' = (raises /\ r.sends # <<>>)
    /\ argMsg' = NoneMsg
    /\ ncalls' = ncalls + 1
    /\ UNCHANGED codecVars
    /\ UNCHANGED appVars

CallEnterMode ==
    \E bus \in Buses, raises \in BOOLEAN :
        /\ Returned("enter_mode", bus, raises, enter_mode(bus, raises))
        /\ UNCHANGED motor_state

CallExitMode ==
    \E bus \in Buses, raises \in BOOLEAN :
        /\ Returned("exit_mode", bus, raises, exit_mode(bus, raises))
        /\ UNCHANGED motor_state

CallZeroPosition ==
    \E bus \in Buses, raises \in BOOLEAN :
        /\ Returned("zero_position", bus, raises, zero_position(bus, raises))
        /\ UNCHANGED motor_state

CallPackCmd ==
    \E bus \in Buses, raises \in BOOLEAN :
        /\ Returned("pack_cmd", bus, raises, pack_cmd(bus, motor_state, raises))
        /\ UNCHANGED motor_state

CallUnpackReply ==
    \E msg \in ReplyInputs :
        LET r == unpack_reply(msg, motor_state)
        IN  /\ ncalls < MaxCalls
            /\ motor_state' = r.state
            /\ op' = "unpack_reply"
            /\ argBus' = "None"
            /\ ret' = r.ret
            /\ sends' = <<>>
            /\ sendRaised' = FALSE
            /\ argMsg' = msg
            /\ ncalls' = ncalls + 1
            /\ UNCHANGED codecVars
            /\ UNCHANGED appVars

Init ==
    /\ motor_state = MotorState
    /\ op = "init"
    /\ argBus = "None"
    /\ ret = "none"
    /\ sends = <<>>
    /\ sendRaised = FALSE
    /\ argMsg = NoneMsg
    /\ ncalls = 0
    /\ CodecIdle
    /\ AppInit

Next ==
    \/ SetSetpoints
    \/ CallEnterMode
    \/ CallExitMode
    \/ CallZeroPosition
    \/ CallPackCmd
    \/ CallUnpackReply

Spec == Init /\ [][Next]_vars

\* a setpoint far outside every range
Far == ToFloat(1000000)

\* any float written to one setpoint: inside its range, at its ends, far below
\* and far above it, and nan
AnyValues(ch) == {Lo(ch), Hi(ch), GridPoint(ch, 5), Far, RatNeg(Far), NaN}

\* all five setpoints far above, and all five far below
AllFar(x) == [p_in |-> x, v_in |-> x, kp_in |-> x, kd_in |-> x, t_in |-> x]

AnySetpoints ==
    UNION {{[b EXCEPT ![SetpointField(ch)] = v] :
               b \in {TestSetpoints, AllFar(Far), AllFar(RatNeg(Far))},
               v \in AnyValues(ch)} : ch \in Channels}

\* the caller stores any floats in the five _in fields
SetAnySetpoints ==
    \E sp \in AnySetpoints :
        /\ motor_state' = [motor_state EXCEPT !.p_in = sp.p_in, !.v_in = sp.v_in,
                                               !.kp_in = sp.kp_in, !.kd_in = sp.kd_in,
                                               !.t_in = sp.t_in]
        /\ op' = "set"
        /\ argBus' = "None"
        /\ ret' = "none"
        /\ sends' = <<>>
        /\ sendRaised' = FALSE
        /\ argMsg' = NoneMsg
        /\ UNCHANGED ncalls
        /\ UNCHANGED codecVars
        /\ UNCHANGED appVars

\* pack_cmd called on a MotorState holding any floats
NextPack ==
    \/ SetAnySetpoints
    \/ CallPackCmd

SpecPack == Init /\ [][NextPack]_vars

\* the codec on its own
InitCodec ==
    /\ motor_state = MotorState
    /\ op = "init"
    /\ argBus = "None"
    /\ ret = "none"
    /\ sends = <<>>
    /\ sendRaised = FALSE
    /\ argMsg = NoneMsg
    /\ ncalls = 0
    /\ cch \in Channels
    /\ cbits \in Widths
    /\ cin \in CodecInputs(cch)
    /\ cx = cin
    /\ cclamped = FALSE
    /\ cstage = "input"
    /\ cenc = 0
    /\ cdec = ToFloat(0)
    /\ AppInit

NextCodec ==
    \/ CodecConstrain
    \/ CodecEncode
    \/ CodecDecode

SpecCodec == InitCodec /\ [][NextCodec]_vars

\* ------------------------------------------------------------------------
\* app.py: the handlers of MotorControlApp, run by the main thread one at a
\* time, and the poller threads (status_update_thread) running beside it
\* ------------------------------------------------------------------------

\* a handler starts: the record of the last handler and of what it sent
Handler(name) ==
    /\ op' = name
    /\ argBus' = "None"
    /\ ret' = "none"
    /\ sends' = <<>>
    /\ sendRaised' = FALSE
    /\ argMsg' = NoneMsg
    /\ UNCHANGED ncalls

\* the record of the last handler stays as it is
SameHandler == UNCHANGED <<op, argBus, ret, sends, sendRaised, argMsg, ncalls>>

ClockOff == [kind |-> "off", val |-> ToFloat(0)]

\* a plausible slip: the flag and the reference are cleared and the event is
\* not cancelled
stop_continuous_uncancelled ==
    IF continuous_active
    THEN /\ continuous_event' = 0
         /\ continuous_active' = FALSE
         /\ UNCHANGED clock
    ELSE UNCHANGED schedVars

\* stop_continuous
stop_continuous ==
    IF continuous_active
    THEN /\ IF continuous_event # 0
            THEN /\ clock' = [clock EXCEPT ![continuous_event] = ClockOff]
                 /\ continuous_event' = 0
            ELSE UNCHANGED <<clock, continuous_event>>
         /\ continuous_active' = FALSE
    ELSE UNCHANGED schedVars

\* toggle_connection, not connected: can.interface.Bus(...) returns a Bus;
\* self.bus and self.connected are set
ConnectOpen ==
    /\ mainPc = "idle"
    /\ ~connected
    /\ nsess < MaxSessions
    /\ nsess' = nsess + 1
    /\ app_bus' = nsess + 1
    /\ connected' = TRUE
    /\ mainPc' = "connect_thread"
    /\ Handler("toggle_connection")
    /\ UNCHANGED <<stop_thread, status_thread, busShut, shutRaised>>
    /\ UNCHANGED <<motor_state, pollVars, schedVars, dispVars, codecVars, uiVars>>

\* toggle_connection, not connected, "Start status thread"
ConnectStartThread ==
    /\ mainPc = "connect_thread"
    /\ stop_thread' = FALSE
    /\ status_thread' = nsess
    /\ tpc' = [tpc EXCEPT ![nsess] = "while"]
    /\ mainPc' = "idle"
    /\ SameHandler
    /\ UNCHANGED <<connected, app_bus, nsess, busShut, shutRaised>>
    /\ UNCHANGED <<tbus, tmsg, recvLog, iterated>>
    /\ UNCHANGED <<motor_state, schedVars, dispVars, codecVars, uiVars>>

\* a plausible slip: connected is set before can.interface.Bus(...) is called
ConnectFail_flagged ==
    /\ mainPc = "idle"
    /\ ~connected
    /\ connected' = TRUE
    /\ Handler("toggle_connection_failed")
    /\ UNCHANGED <<app_bus, stop_thread, status_thread, mainPc, nsess, busShut, shutRaised>>
    /\ UNCHANGED <<motor_state, pollVars, schedVars, dispVars, codecVars, uiVars>>

\* toggle_connection, not connected: can.interface.Bus(...) raises; the
\* except clause logs the error
ConnectFail ==
    /\ mainPc = "idle"
    /\ ~connected
    /\ Handler("toggle_connection_failed")
    /\ UNCHANGED <<motor_state, sessVars, pollVars, schedVars, dispVars, codecVars, uiVars>>

\* if self.bus: try: self.bus.shutdown() except: pass -- the call returns or
\* raises, and the handler goes on either way
TryShutdown ==
    IF app_bus # 0
    THEN /\ busShut' = [busShut EXCEPT ![app_bus] = @ + 1]
         /\ shutRaised' \in BOOLEAN
    ELSE UNCHANGED <<busShut, shutRaised>>

\* a plausible slip: disconnecting leaves the periodic send running
DisconnectBegin_no_cancel ==
    /\ mainPc = "idle"
    /\ connected
    /\ mainPc' = "disconnect_flag"
    /\ Handler("toggle_connection")
    /\ UNCHANGED <<connected, app_bus, stop_thread, status_thread, nsess, busShut, shutRaised>>
    /\ UNCHANGED <<motor_state, pollVars, schedVars, dispVars, codecVars, uiVars>>

\* toggle_connection, connected: "Stop continuous mode if active",
\* stop_continuous()
DisconnectBegin ==
    /\ mainPc = "idle"
    /\ connected
    /\ stop_continuous
    /\ mainPc' = "disconnect_flag"
    /\ Handler("toggle_connection")
    /\ UNCHANGED <<connected, app_bus, stop_thread, status_thread, nsess, busShut, shutRaised>>
    /\ UNCHANGED <<motor_state, pollVars, dispVars, codecVars, uiVars>>

\* self.stop_thread = True, and the call of status_thread.join(timeout=1.0)
\* under "if self.status_thread"
DisconnectSetFlag ==
    /\ mainPc = "disconnect_flag"
    /\ stop_thread' = TRUE
    /\ mainPc' = IF status_thread # 0 THEN "disconnect_join" ELSE "disconnect_shutdown"
    /\ SameHandler
    /\ UNCHANGED <<connected, app_bus, status_thread, nsess, busShut, shutRaised>>
    /\ UNCHANGED <<motor_state, pollVars, schedVars, dispVars, codecVars, uiVars>>

\* join(timeout=1.0) returns: the thread has ended, or one second has passed
DisconnectJoined ==
    /\ mainPc = "disconnect_join"
    /\ mainPc' = "disconnect_shutdown"
    /\ SameHandler
    /\ UNCHANGED <<connected, app_bus, stop_thread, status_thread, nsess, busShut, shutRaised>>
    /\ UNCHANGED <<motor_state, pollVars, schedVars, dispVars, codecVars, uiVars>>

\* a plausible slip: the bus is dropped without shutdown()
DisconnectShutdown_skipped ==
    /\ mainPc = "disconnect_shutdown"
    /\ mainPc' = "disconnect_clear"
    /\ SameHandler
    /\ UNCHANGED <<connected, app_bus, stop_thread, status_thread, nsess, busShut, shutRaised>>
    /\ UNCHANGED <<motor_state, pollVars, schedVars, dispVars, codecVars, uiVars>>

\* if self.bus: try: self.bus.shutdown() except: pass
DisconnectShutdown ==
    /\ mainPc = "disconnect_shutdown"
    /\ TryShutdown
    /\ mainPc' = "disconnect_clear"
    /\ SameHandler
    /\ UNCHANGED <<connected, app_bus, stop_thread, status_thread, nsess>>
    /\ UNCHANGED <<motor_state, pollVars, schedVars, dispVars, codecVars, uiVars>>

\* a plausible slip: disconnecting also replaces motor_state by a new MotorState
DisconnectClear_reset ==
    /\ mainPc = "disconnect_clear"
    /\ app_bus' = 0
    /\ connected' = FALSE
    /\ mainPc' = "idle"
    /\ motor_state' = MotorState
    /\ SameHandler
    /\ UNCHANGED <<stop_thread, status_thread, nsess, busShut, shutRaised>>
    /\ UNCHANGED <<pollVars, schedVars, dispVars, codecVars, uiVars>>

\* self.bus = None (inside "if self.bus"), self.connected = False
DisconnectClear ==
    /\ mainPc = "disconnect_clear"
    /\ app_bus' = 0
    /\ connected' = FALSE
    /\ mainPc' = "idle"
    /\ SameHandler
    /\ UNCHANGED <<stop_thread, status_thread, nsess, busShut, shutRaised>>
    /\ UNCHANGED <<motor_state, pollVars, schedVars, dispVars, codecVars, uiVars>>

\* on_stop: stop_continuous()
OnStopBegin ==
    /\ mainPc = "idle"
    /\ stop_continuous
    /\ mainPc' = "on_stop_flag"
    /\ Handler("on_stop")
    /\ UNCHANGED <<connected, app_bus, stop_thread, status_thread, nsess, busShut, shutRaised>>
    /\ UNCHANGED <<motor_state, pollVars, dispVars, codecVars, uiVars>>

\* on_stop: self.stop_thread = True, and the call of
\* status_thread.join(timeout=1.0) under "if self.status_thread"
OnStopSetFlag ==
    /\ mainPc = "on_stop_flag"
    /\ stop_thread' = TRUE
    /\ mainPc' = IF status_thread # 0 THEN "on_stop_join" ELSE "on_stop_shutdown"
    /\ SameHandler
    /\ UNCHANGED <<connected, app_bus, status_thread, nsess, busShut, shutRaised>>
    /\ UNCHANGED <<motor_state, pollVars, schedVars, dispVars, codecVars, uiVars>>

OnStopJoined ==
    /\ mainPc = "on_stop_join"
    /\ mainPc' = "on_stop_shutdown"
    /\ SameHandler
    /\ UNCHANGED <<connected, app_bus, stop_thread, status_thread, nsess, busShut, shutRaised>>
    /\ UNCHANGED <<motor_state, pollVars, schedVars, dispVars, codecVars, uiVars>>

\* on_stop: if self.bus: try: self.bus.shutdown() except: pass; the
\* application has stopped
OnStopShutdown ==
    /\ mainPc = "on_stop_shutdown"
    /\ TryShutdown
    /\ mainPc' = "stopped"
    /\ SameHandler
    /\ UNCHANGED <<connected, app_bus, stop_thread, status_thread, nsess>>
    /\ UNCHANGED <<motor_state, pollVars, schedVars, dispVars, codecVars, uiVars>>

\* --- status_update_thread, run by Thread t ---

Alive(t) == tpc[t] \notin {"none", "done"}

\* while not self.stop_thread (after time.sleep(0.1) of the iteration before)
PollWhile(t) ==
    /\ tpc[t] = "while"
    /\ tpc' = [tpc EXCEPT ![t] = IF stop_thread THEN "done" ELSE "if"]
    /\ UNCHANGED <<tbus, tmsg, recvLog, iterated>>
    /\ UNCHANGED <<motorVars, sessVars, schedVars, dispVars, codecVars, uiVars>>

\* if self.connected and self.bus
PollIf(t) ==
    /\ tpc[t] = "if"
    /\ tpc' = [tpc EXCEPT ![t] = IF connected /\ app_bus # 0 THEN "call" ELSE "while"]
    /\ UNCHANGED <<tbus, tmsg, recvLog, iterated>>
    /\ UNCHANGED <<motorVars, sessVars, schedVars, dispVars, codecVars, uiVars>>

\* self.bus.recv(timeout=0.1) is called: self.bus is read again; on None the
\* attribute access raises and the except clause passes
PollCall(t) ==
    /\ tpc[t] = "call"
    /\ IF app_bus = 0
       THEN /\ tpc' = [tpc EXCEPT ![t] = "while"]
            /\ UNCHANGED tbus
       ELSE /\ tpc' = [tpc EXCEPT ![t] = "recv"]
            /\ tbus' = [tbus EXCEPT ![t] = app_bus]
    /\ UNCHANGED <<tmsg, recvLog, iterated>>
    /\ UNCHANGED <<motorVars, sessVars, schedVars, dispVars, codecVars, uiVars>>

\* what a recv can give: None after the timeout, an exception, a message
RecvTimeout == [kind |-> "timeout", msg |-> NoneMsg]

RecvRaise == [kind |-> "raise", msg |-> NoneMsg]

RecvMessage(m) == [kind |-> "message", msg |-> m]

\* a plausible slip: no try / except in the loop, so a recv that raises ends
\* the thread
PollRecv_unprotected(t, outcomes) ==
    /\ tpc[t] = "recv"
    /\ \E o \in outcomes :
          /\ recvLog' = IF o = RecvMessage(TestStatusReply) /\ recvLog # "mixed"
                        THEN "status" ELSE "mixed"
          /\ IF o.kind = "message" /\ unpack_reply(o.msg, motor_state).ret = "True"
             THEN /\ tpc' = [tpc EXCEPT ![t] = "store_p"]
                  /\ tmsg' = [tmsg EXCEPT ![t] = o.msg]
             ELSE /\ tpc' = [tpc EXCEPT ![t] = IF o.kind = "raise" THEN "done" ELSE "while"]
                  /\ UNCHANGED tmsg
    /\ tbus' = [tbus EXCEPT ![t] = 0]
    /\ UNCHANGED iterated
    /\ UNCHANGED <<motorVars, sessVars, schedVars, dispVars, codecVars, uiVars>>

\* recv returns (or raises); "if msg:" and unpack_reply up to its first store
PollRecv(t, outcomes) ==
    /\ tpc[t] = "recv"
    /\ \E o \in outcomes :
          /\ recvLog' = IF o = RecvMessage(TestStatusReply) /\ recvLog # "mixed"
                        THEN "status" ELSE "mixed"
          /\ IF o.kind = "message" /\ unpack_reply(o.msg, motor_state).ret = "True"
             THEN /\ tpc' = [tpc EXCEPT ![t] = "store_p"]
                  /\ tmsg' = [tmsg EXCEPT ![t] = o.msg]
             ELSE /\ tpc' = [tpc EXCEPT ![t] = "while"]
                  /\ UNCHANGED tmsg
    /\ tbus' = [tbus EXCEPT ![t] = 0]
    /\ UNCHANGED iterated
    /\ UNCHANGED <<motorVars, sessVars, schedVars, dispVars, codecVars, uiVars>>

\* motor_state.p_out = uint_to_float(p_int, P_MIN, P_MAX, 16)
PollStoreP(t) ==
    /\ tpc[t] = "store_p"
    /\ motor_state' = [motor_state EXCEPT
                          !.p_out = unpack_reply(tmsg[t], motor_state).state.p_out]
    /\ tpc' = [tpc EXCEPT ![t] = "store_v"]
    /\ UNCHANGED <<tbus, tmsg, recvLog, iterated>>
    /\ UNCHANGED <<op, argBus, ret, sends, sendRaised, argMsg, ncalls>>
    /\ UNCHANGED <<sessVars, schedVars, dispVars, codecVars, uiVars>>

\* motor_state.v_out = uint_to_float(v_int, V_MIN, V_MAX, 12)
PollStoreV(t) ==
    /\ tpc[t] = "store_v"
    /\ motor_state' = [motor_state EXCEPT
                          !.v_out = unpack_reply(tmsg[t], motor_state).state.v_out]
    /\ tpc' = [tpc EXCEPT ![t] = "store_t"]
    /\ UNCHANGED <<tbus, tmsg, recvLog, iterated>>
    /\ UNCHANGED <<op, argBus, ret, sends, sendRaised, argMsg, ncalls>>
    /\ UNCHANGED <<sessVars, schedVars, dispVars, codecVars, uiVars>>

\* motor_state.t_out = uint_to_float(i_int, -T_MAX, T_MAX, 12); return True;
\* Clock.schedule_once(lambda dt: self.update_status_display(), 0)
PollStoreT(t) ==
    /\ tpc[t] = "store_t"
    /\ motor_state' = [motor_state EXCEPT
                          !.t_out = unpack_reply(tmsg[t], motor_state).state.t_out]
    /\ tpc' = [tpc EXCEPT ![t] = "while"]
    /\ tmsg' = [tmsg EXCEPT ![t] = NoneMsg]
    /\ iterated' = TRUE
    /\ dPending' = TRUE
    /\ UNCHANGED <<tbus, recvLog>>
    /\ UNCHANGED <<dRead, shown>>
    /\ UNCHANGED <<op, argBus, ret, sends, sendRaised, argMsg, ncalls>>
    /\ UNCHANGED <<sessVars, schedVars, codecVars, uiVars>>

\* what the bus gives the poller
PollerReplies ==
    {RecvTimeout, RecvRaise,
     RecvMessage(TestStatusReply), RecvMessage(Reply(<<23, 128, 0>>))}

PollerStep(t) ==
    \/ PollWhile(t)
    \/ PollIf(t)
    \/ PollCall(t)
    \/ PollRecv(t, PollerReplies)
    \/ PollStoreP(t)
    \/ PollStoreV(t)
    \/ PollStoreT(t)

\* the main thread inside a handler it has begun
MainStep ==
    \/ ConnectStartThread
    \/ DisconnectSetFlag
    \/ DisconnectJoined
    \/ DisconnectShutdown
    \/ DisconnectClear
    \/ OnStopSetFlag
    \/ OnStopJoined
    \/ OnStopShutdown

\* connecting, disconnecting and stopping, with the poller threads
NextSession ==
    \/ ConnectOpen
    \/ ConnectFail
    \/ DisconnectBegin
    \/ OnStopBegin
    \/ MainStep
    \/ \E t \in Sessions : PollerStep(t)

SpecSession == Init /\ [][NextSession]_vars

\* weak fairness of PollerStep(t), written out: PollerStep(t) is enabled
\* exactly when Thread t is alive, and a step of a live Thread t is a step
\* that changes tpc[t] while it is alive
PollerFair(t) ==
    \/ []<>(~Alive(t))
    \/ []<><<Alive(t) /\ tpc'[t] # tpc[t]>>_vars

\* the same, every live thread scheduled again and again: a poller thread
\* that can step does step, and the main thread finishes a handler it began
SpecSessionFair ==
    /\ SpecSession
    /\ \A t \in Sessions : PollerFair(t)
    /\ WF_vars(MainStep)

\* ------------------------------------------------------------------------
\* app.py: the operator's commands and the periodic send
\* ------------------------------------------------------------------------

\* Python a < b of two floats: False when either is nan
PyLT(a, b) == ~IsNaN(a) /\ ~IsNaN(b) /\ RatLT(a, b)

\* what the operator types into continuous_checkbox
IntervalTexts == {"0.1", "0.005", "0", "-1", "nan", "abc", ""}

\* Python float(text): the float, or ValueError
PyFloat(text) ==
    CASE text = "0.1"   -> [ok |-> TRUE, val |-> Rat(1, 10)]
      [] text = "0.005" -> [ok |-> TRUE, val |-> Rat(1, 200)]
      [] text = "0"     -> [ok |-> TRUE, val |-> ToFloat(0)]
      [] text = "-1"    -> [ok |-> TRUE, val |-> ToFloat(-1)]
      [] text = "nan"   -> [ok |-> TRUE, val |-> NaN]
      [] OTHER          -> [ok |-> FALSE, val |-> NaN]

\* the literal 0.01 of toggle_continuous
IntervalFloor == Rat(1, 100)

\* positions the operator drags the sliders to: each slider stays inside the
\* range of its channel
SliderInputs ==
    {SliderDefaults, TestSetpoints,
     [p_in |-> P_MAX, v_in |-> V_MIN, kp_in |-> KP_MAX, kd_in |-> KD_MAX,
      t_in |-> T_MAX]}

\* the operator edits the interval text
TypeInterval ==
    /\ mainPc = "idle"
    /\ \E text \in IntervalTexts :
          /\ text # interval_text
          /\ interval_text' = text
    /\ Handler("on_text")
    /\ UNCHANGED <<motor_state, sliders>>
    /\ UNCHANGED <<sessVars, pollVars, schedVars, dispVars, codecVars>>

\* the operator drags sliders
MoveSliders ==
    /\ mainPc = "idle"
    /\ \E sp \in SliderInputs :
          /\ sp # sliders
          /\ sliders' = sp
    /\ Handler("on_value")
    /\ UNCHANGED <<motor_state, interval_text>>
    /\ UNCHANGED <<sessVars, pollVars, schedVars, dispVars, codecVars>>

\* a plausible slip: the handler builds a new MotorState from the sliders
FromSliders_fresh(ms) ==
    [MotorState EXCEPT !.p_in = sliders.p_in, !.v_in = sliders.v_in,
                       !.kp_in = sliders.kp_in, !.kd_in = sliders.kd_in,
                       !.t_in = sliders.t_in]

\* "Update motor state from sliders"
FromSliders(ms) ==
    [ms EXCEPT !.p_in = sliders.p_in, !.v_in = sliders.v_in,
               !.kp_in = sliders.kp_in, !.kd_in = sliders.kd_in,
               !.t_in = sliders.t_in]

\* a plausible slip: the frame is packed from the stored setpoints and the
\* sliders are not read
SendFromSliders_stored(name) ==
    IF connected /\ app_bus # 0
    THEN \E raises \in BOOLEAN :
            LET r == pack_cmd("bus", motor_state, raises)
            IN  /\ UNCHANGED motor_state
                /\ op' = name
                /\ argBus' = "bus"
                /\ ret' = r.ret
                /\ sends' = r.sends
                /\ sendRaised' = (raises /\ r.sends # <<>>)
                /\ argMsg' = NoneMsg
                /\ UNCHANGED ncalls
    ELSE /\ Handler(name)
         /\ UNCHANGED motor_state

\* the body shared by on_send_command and continuous_update: under
\* "if self.connected and self.bus" the slider values are stored and
\* pack_cmd(self.bus, self.motor_state) is called
SendFromSliders(name) ==
    IF connected /\ app_bus # 0
    THEN \E raises \in BOOLEAN :
            LET r == pack_cmd("bus", FromSliders(motor_state), raises)
            IN  /\ motor_state' = FromSliders(motor_state)
                /\ op' = name
                /\ argBus' = "bus"
                /\ ret' = r.ret
                /\ sends' = r.sends
                /\ sendRaised' = (raises /\ r.sends # <<>>)
                /\ argMsg' = NoneMsg
                /\ UNCHANGED ncalls
    ELSE /\ Handler(name)
         /\ UNCHANGED motor_state

on_send_command ==
    /\ mainPc = "idle"
    /\ SendFromSliders("on_send_command")
    /\ UNCHANGED <<appVars, codecVars>>

\* the Clock calls continuous_update: an event scheduled and not cancelled is
\* due
continuous_update ==
    /\ mainPc = "idle"
    /\ \E e \in EventIds : clock[e].kind = "on"
    /\ SendFromSliders("continuous_update")
    /\ UNCHANGED <<appVars, codecVars>>

\* Clock.schedule_interval(self.continuous_update, interval): a new event
NewEvent == IF clock[1].kind = "off" THEN 1 ELSE 2

\* a plausible variant: a text that is no number starts the periodic send at
\* the floor
InvalidInterval_floor ==
    /\ continuous_active' = TRUE
    /\ continuous_event' = NewEvent
    /\ clock' = [clock EXCEPT ![NewEvent] = [kind |-> "on", val |-> IntervalFloor]]
    /\ ret' = "none"

\* except ValueError: self.log("Invalid interval value")
InvalidInterval ==
    /\ UNCHANGED schedVars
    /\ ret' = "log: Invalid interval value"

\* if interval < 0.01: interval = 0.01
FlooredInterval(x) == IF PyLT(x, IntervalFloor) THEN IntervalFloor ELSE x

toggle_continuous ==
    /\ mainPc = "idle"
    /\ op' = "toggle_continuous"
    /\ argBus' = "None"
    /\ sends' = <<>>
    /\ sendRaised' = FALSE
    /\ argMsg' = NoneMsg
    /\ IF continuous_active
       THEN /\ stop_continuous
            /\ ret' = "none"
       ELSE IF PyFloat(interval_text).ok
       THEN /\ continuous_active' = TRUE
            /\ continuous_event' = NewEvent
            /\ clock' = [clock EXCEPT ![NewEvent] =
                            [kind |-> "on",
                             val |-> FlooredInterval(PyFloat(interval_text).val)]]
            /\ ret' = "none"
       ELSE InvalidInterval
    /\ UNCHANGED <<motor_state, ncalls>>
    /\ UNCHANGED <<sessVars, pollVars, dispVars, uiVars, codecVars>>

\* a plausible slip: no "if self.continuous_active" guard, so that
\* self.continuous_event.cancel() is called on None and raises
CallStopContinuous_unguarded ==
    /\ mainPc = "idle"
    /\ stop_continuous
    /\ op' = "stop_continuous"
    /\ argBus' = "None"
    /\ ret' = IF continuous_active THEN "none" ELSE "raise"
    /\ sends' = <<>>
    /\ sendRaised' = FALSE
    /\ argMsg' = NoneMsg
    /\ UNCHANGED <<motor_state, ncalls>>
    /\ UNCHANGED <<sessVars, pollVars, dispVars, uiVars, codecVars>>

\* stop_continuous called on its own
CallStopContinuous ==
    /\ mainPc = "idle"
    /\ stop_continuous
    /\ Handler("stop_continuous")
    /\ UNCHANGED motor_state
    /\ UNCHANGED <<sessVars, pollVars, dispVars, uiVars, codecVars>>

\* a handler has called a motor.py function with self.bus; r is what the
\* function did
Commanded(name, raises, r) ==
    /\ op' = name
    /\ argBus' = "bus"
    /\ ret' = r.ret
    /\ sends' = r.sends
    /\ sendRaised' = (raises /\ r.sends # <<>>)
    /\ argMsg' = NoneMsg
    /\ UNCHANGED ncalls

on_enter_mode ==
    /\ mainPc = "idle"
    /\ IF connected /\ app_bus # 0
       THEN \E raises \in BOOLEAN :
               Commanded("on_enter_mode", raises, enter_mode("bus", raises))
       ELSE Handler("on_enter_mode")
    /\ UNCHANGED <<motor_state, appVars, codecVars>>

on_exit_mode ==
    /\ mainPc = "idle"
    /\ IF connected /\ app_bus # 0
       THEN \E raises \in BOOLEAN :
               Commanded("on_exit_mode", raises, exit_mode("bus", raises))
       ELSE Handler("on_exit_mode")
    /\ UNCHANGED <<motor_state, appVars, codecVars>>

\* a plausible slip: the "if self.connected and self.bus" test is missing
on_zero_position_unguarded ==
    /\ mainPc = "idle"
    /\ \E raises \in BOOLEAN :
          Commanded("on_zero_position", raises, zero_position("bus", raises))
    /\ UNCHANGED <<motor_state, appVars, codecVars>>

on_zero_position ==
    /\ mainPc = "idle"
    /\ IF connected /\ app_bus # 0
       THEN \E raises \in BOOLEAN :
               Commanded("on_zero_position", raises, zero_position("bus", raises))
       ELSE Handler("on_zero_position")
    /\ UNCHANGED <<motor_state, appVars, codecVars>>

\* the operator at the controls: connecting and disconnecting, the sliders,
\* the send button and the periodic send; no reply arrives
NextControl ==
    \/ ConnectOpen
    \/ ConnectFail
    \/ DisconnectBegin
    \/ OnStopBegin
    \/ MainStep
    \/ TypeInterval
    \/ MoveSliders
    \/ on_enter_mode
    \/ on_exit_mode
    \/ on_zero_position
    \/ on_send_command
    \/ continuous_update
    \/ toggle_continuous
    \/ CallStopContinuous

SpecControl == Init /\ [][NextControl]_vars

\* the motor answers every receive with the reply of test_status_update
StatusReplies == {RecvMessage(TestStatusReply)}

StatusStep(t) ==
    \/ PollWhile(t)
    \/ PollIf(t)
    \/ PollCall(t)
    \/ PollRecv(t, StatusReplies)
    \/ PollStoreP(t)
    \/ PollStoreV(t)
    \/ PollStoreT(t)

\* one session in use: the operator commands the motor while the poller
\* decodes its replies
NextOperate ==
    \/ ConnectOpen
    \/ ConnectStartThread
    \/ MoveSliders
    \/ on_enter_mode
    \/ on_exit_mode
    \/ on_zero_position
    \/ on_send_command
    \/ continuous_update
    \/ toggle_continuous
    \/ CallStopContinuous
    \/ \E t \in Sessions : StatusStep(t)

SpecOperate == Init /\ [][NextOperate]_vars

\* ------------------------------------------------------------------------
\* app.py: update_status_display, run by the main thread when the Clock
\* reaches the call the poller scheduled; the poller thread runs beside it
\* ------------------------------------------------------------------------

\* the call begins: the first argument, self.motor_state.p_out, is read
DisplayReadP ==
    /\ mainPc = "idle"
    /\ dPending
    /\ dPending' = FALSE
    /\ dRead' = <<motor_state.p_out>>
    /\ mainPc' = "display_v"
    /\ Handler("update_status_display")
    /\ UNCHANGED shown
    /\ UNCHANGED <<connected, app_bus, stop_thread, status_thread, nsess, busShut, shutRaised>>
    /\ UNCHANGED <<motor_state, pollVars, schedVars, uiVars, codecVars>>

\* the second argument, self.motor_state.v_out, is read
DisplayReadV ==
    /\ mainPc = "display_v"
    /\ dRead' = Append(dRead, motor_state.v_out)
    /\ mainPc' = "display_t"
    /\ SameHandler
    /\ UNCHANGED <<dPending, shown>>
    /\ UNCHANGED <<connected, app_bus, stop_thread, status_thread, nsess, busShut, shutRaised>>
    /\ UNCHANGED <<motor_state, pollVars, schedVars, uiVars, codecVars>>

\* the third argument, self.motor_state.t_out, is read and
\* status_display.update_values is called
DisplayReadT ==
    /\ mainPc = "display_t"
    /\ shown' = Append(dRead, motor_state.t_out)
    /\ dRead' = NoTriple
    /\ mainPc' = "idle"
    /\ SameHandler
    /\ UNCHANGED dPending
    /\ UNCHANGED <<connected, app_bus, stop_thread, status_thread, nsess, busShut, shutRaised>>
    /\ UNCHANGED <<motor_state, pollVars, schedVars, uiVars, codecVars>>

\* the motor answers with one of two frames
PublishReplies == {RecvMessage(TestStatusReply), RecvMessage(TestReply)}

PublishStep(t) ==
    \/ PollWhile(t)
    \/ PollIf(t)
    \/ PollCall(t)
    \/ PollRecv(t, PublishReplies)
    \/ PollStoreP(t)
    \/ PollStoreV(t)
    \/ PollStoreT(t)

\* a connected session with replies arriving and the status display updating
NextPublish ==
    \/ ConnectOpen
    \/ ConnectStartThread
    \/ \E t \in Sessions : PublishStep(t)
    \/ DisplayReadP
    \/ DisplayReadV
    \/ DisplayReadT

SpecPublish == Init /\ [][NextPublish]_vars

\* ------------------------------------------------------------------------
\* Properties
\* ------------------------------------------------------------------------

ModeOps == {"enter_mode", "exit_mode", "zero_position"}

SendOps == ModeOps \cup {"pack_cmd"}

\* the last data byte of each mode command
ModeByte(o) ==
    CASE o = "enter_mode"    -> 252
      [] o = "exit_mode"     -> 253
      [] o = "zero_position" -> 254

\* C1: with a non-None bus whose send succeeds, enter_mode, exit_mode and
\* zero_position hand exactly one frame to the bus and return True; the frame
\* has arbitration id 0x17, is a standard frame, and its data is seven 0xFF
\* bytes followed by 0xFC, 0xFD or 0xFE.
C1_ModeFrames ==
    (op \in ModeOps /\ argBus = "bus" /\ ~sendRaised) =>
        /\ ret = "True"
        /\ Len(sends) = 1
        /\ sends[1].arbitration_id = 23
        /\ sends[1].is_extended_id = FALSE
        /\ sends[1].data = <<255, 255, 255, 255, 255, 255, 255, ModeByte(op)>>

C1_Witness ==
    /\ op = "enter_mode"
    /\ argBus = "bus"
    /\ ~sendRaised
    /\ ncalls >= 2

\* C2: pack_cmd with the setpoints 5.0, 2.0, 100.0, 2.0, 10.0 sends the one
\* frame B3 32 9F F3 33 66 68 8D and returns True when the send succeeds,
\* whatever the telemetry is and whatever was called before.
C2_GoldenFrame ==
    (op = "pack_cmd" /\ argBus = "bus" /\ Setpoints(motor_state) = TestSetpoints) =>
        /\ Len(sends) = 1
        /\ sends[1].data = <<179, 50, 159, 243, 51, 102, 104, 141>>
        /\ (~sendRaised => ret = "True")

C2_Witness ==
    /\ op = "pack_cmd"
    /\ argBus = "bus"
    /\ Setpoints(motor_state) = TestSetpoints
    /\ ret = "True"
    /\ ncalls >= 2
    /\ motor_state.p_out # ToFloat(0)

\* the quantized value of one channel, taken back out of command data
CmdField(data, ch) ==
    CASE ch = "position" -> data[1] * 256 + data[2]
      [] ch = "velocity" -> data[3] * 16 + (data[4] \div 16)
      [] ch = "kp"       -> (data[4] % 16) * 256 + data[5]
      [] ch = "kd"       -> data[6] * 16 + (data[7] \div 16)
      [] ch = "torque"   -> (data[7] % 16) * 256 + data[8]

\* all ones in the width pack_cmd gives the channel
CmdFieldMax(ch) == IF ch = "position" THEN 65535 ELSE 4095

\* C3: pack_cmd saturates silently: a setpoint above the channel's max gives
\* the frame of the setpoint equal to max, one below min the frame of min;
\* pack_cmd still sends one frame, returns True when the send succeeds, and
\* raises nothing.
C3_Saturation ==
    (op = "pack_cmd" /\ argBus = "bus") =>
        /\ Len(sends) = 1
        /\ ret # "raise"
        /\ (~sendRaised => ret = "True")
        /\ \A ch \in Channels :
              LET f == SetpointField(ch)
              IN  /\ RatLT(Hi(ch), motor_state[f]) =>
                        /\ sends[1].data = pack_buf([motor_state EXCEPT ![f] = Hi(ch)])
                        /\ CmdField(sends[1].data, ch) = CmdFieldMax(ch)
                  /\ RatLT(motor_state[f], Lo(ch)) =>
                        /\ sends[1].data = pack_buf([motor_state EXCEPT ![f] = Lo(ch)])
                        /\ CmdField(sends[1].data, ch) = 0

C3_Witness ==
    /\ op = "pack_cmd"
    /\ argBus = "bus"
    /\ ret = "True"
    /\ RatLT(P_MAX, motor_state.p_in)
    /\ RatLT(motor_state.v_in, V_MIN)

\* 2^bits - 1
FullScale(bits) == IF bits = 12 THEN 4095 ELSE 65535

\* (max - min) / (2^bits - 1)
QuantStep(ch, bits) == RatDiv(RatSub(Hi(ch), Lo(ch)), ToFloat(FullScale(bits)))

CodecRan == cstage \in {"encoded", "decoded"} /\ cbits \in {12, 16}

\* C4 as stated: float_to_uint itself clamps, float_to_uint(x) = float_to_uint(max)
\* for x > max and float_to_uint(x) = float_to_uint(min) for x < min.
C4_EncodeClamps ==
    CodecRan =>
        /\ RatLT(Hi(cch), cx) => cenc = float_to_uint(Hi(cch), Lo(cch), Hi(cch), cbits)
        /\ RatLT(cx, Lo(cch)) => cenc = float_to_uint(Lo(cch), Lo(cch), Hi(cch), cbits)

\* C4 amended: float_to_uint does not clamp (at least one quantization step
\* above max it returns more than 2^bits - 1, at least one step below min a
\* negative number); the value is clamped by the caller, as pack_cmd does:
\* float_to_uint of the constrained x equals float_to_uint(max) for x > max
\* and float_to_uint(min) for x < min.
C4_ClampedByCaller ==
    CodecRan =>
        /\ (cclamped /\ RatLT(Hi(cch), cin)) =>
               cenc = float_to_uint(Hi(cch), Lo(cch), Hi(cch), cbits)
        /\ (cclamped /\ RatLT(cin, Lo(cch))) =>
               cenc = float_to_uint(Lo(cch), Lo(cch), Hi(cch), cbits)
        /\ (~cclamped /\ RatLE(QuantStep(cch, cbits), RatSub(cin, Hi(cch)))) =>
               cenc > FullScale(cbits)
        /\ (~cclamped /\ RatLE(QuantStep(cch, cbits), RatSub(Lo(cch), cin))) =>
               cenc < 0

C4_Witness ==
    /\ cstage = "encoded"
    /\ cbits = 16
    /\ cclamped
    /\ RatLT(Hi(cch), cin)

\* C5: endpoints are exact for all five ranges and both widths:
\* float_to_uint(min) = 0, float_to_uint(max) = 2^bits - 1,
\* uint_to_float(0) = min, uint_to_float(2^bits - 1) = max, and
\* decode(encode(min)) = min.
C5_Endpoints ==
    CodecRan =>
        /\ cx = Lo(cch) => cenc = 0
        /\ cx = Hi(cch) => cenc = (IF cbits = 12 THEN 4095 ELSE 65535)
        /\ (cstage = "decoded" /\ cenc = 0) => cdec = Lo(cch)
        /\ (cstage = "decoded" /\ cenc = (IF cbits = 12 THEN 4095 ELSE 65535)) =>
               cdec = Hi(cch)
        /\ (cstage = "decoded" /\ cx = Lo(cch)) => cdec = Lo(cch)

C5_Witness ==
    /\ cstage = "decoded"
    /\ cbits = 16
    /\ cch = "torque"
    /\ cx = Hi(cch)

\* C6: float_to_uint truncates: for x in [min, max] the result is the integer
\* part of (x - min) * (2^bits - 1) / (max - min); the middle of the position
\* range encodes to 2047 at 12 bits and 32767 at 16 bits.
C6_Truncation ==
    (CodecRan /\ RatLE(Lo(cch), cx) /\ RatLE(cx, Hi(cch))) =>
        LET q == RatDiv(RatMul(RatSub(cx, Lo(cch)), ToFloat(FullScale(cbits))),
                        RatSub(Hi(cch), Lo(cch)))
        IN  /\ RatLE(ToFloat(cenc), q)
            /\ RatLT(q, ToFloat(cenc + 1))
            /\ (cch = "position" /\ cx = ToFloat(0)) =>
                   cenc = (IF cbits = 12 THEN 2047 ELSE 32767)

C6_Witness ==
    /\ cstage = "encoded"
    /\ cch = "position"
    /\ cbits = 12
    /\ cx = Middle("position")

Near(a, c) == RatLE(RatAbs(RatSub(a, c)), Rat(1, 20))

C9_DecodeFailure ==
    [][(op' = "unpack_reply" /\ ncalls' = ncalls + 1) =>
          /\ ret' \in {"True", "False"}
          /\ (argMsg'.is_none \/ Len(argMsg'.data) < 6) =>
                 /\ ret' = "False"
                 /\ Telemetry(motor_state') = Telemetry(motor_state)
          /\ (~argMsg'.is_none /\ Len(argMsg'.data) >= 6) => ret' = "True"]_vars

C9_Witness ==
    /\ op = "unpack_reply"
    /\ ~argMsg.is_none
    /\ Len(argMsg.data) = 5
    /\ motor_state.p_out # ToFloat(0)

\* C10: enter_mode, exit_mode, zero_position and pack_cmd return True exactly
\* when the frame was handed to bus.send without error; with bus None they
\* return False and attempt no send; when bus.send raises they return False
\* and no exception reaches the caller.
C10_SendResults ==
    op \in SendOps =>
        /\ ret \in {"True", "False"}
        /\ ret = "True" <=> (Len(sends) = 1 /\ ~sendRaised)
        /\ argBus = "None" => (ret = "False" /\ sends = <<>>)
        /\ argBus = "bus" => Len(sends) = 1
        /\ sendRaised => ret = "False"

C10_Witness ==
    /\ op = "pack_cmd"
    /\ argBus = "bus"
    /\ sendRaised


\* the main thread is between handlers
Idle == mainPc = "idle"

\* C11: toggle_connection alternates the session. From the disconnected state,
\* with a bus that opens, it ends with connected = True, a bus that is not
\* None and the poller thread started; from the connected state it ends with
\* connected = False and bus = None, and shutdown has been called on the bus
\* of that session exactly once.
C11_ToggleAlternates ==
    [][/\ (mainPc = "connect_thread" /\ Idle') =>
             /\ connected'
             /\ app_bus' # 0
             /\ status_thread' = app_bus'
             /\ tpc'[status_thread'] = "while"
             /\ busShut'[app_bus'] = 0
       /\ (mainPc = "disconnect_clear" /\ Idle') =>
             /\ app_bus # 0
             /\ ~connected'
             /\ app_bus' = 0
             /\ busShut'[app_bus] = 1
       /\ (Idle /\ ~Idle' /\ op' = "toggle_connection") =>
             IF connected
             THEN mainPc' = "disconnect_flag"
             ELSE mainPc' = "connect_thread"]_vars

C11_Witness ==
    /\ Idle
    /\ op = "toggle_connection"
    /\ ~connected
    /\ app_bus = 0
    /\ nsess = MaxSessions
    /\ \A b \in Sessions : busShut[b] = 1

\* C12 as stated: once the stop flag is set, every poller thread that is
\* running leaves its loop and ends, whatever the operator does afterwards.
C12_PollerTerminates ==
    \A t \in Sessions : (stop_thread /\ Alive(t)) ~> (tpc[t] = "done")

\* every receive so far returned the reply of test_status_update, and a poller
\* has finished an iteration that decoded it
StatusOnly == recvLog = "status" /\ iterated

\* C14 as stated: after toggle_connection has disconnected a session in which
\* replies were received, p_out, v_out and t_out are all 0.0.
C14_TelemetryReset ==
    (Idle /\ ~connected /\ op = "toggle_connection" /\ StatusOnly) =>
        /\ motor_state.p_out = ToFloat(0)
        /\ motor_state.v_out = ToFloat(0)
        /\ motor_state.t_out = ToFloat(0)

C15_SetpointsPersist ==
    [][op' \in {"toggle_connection", "toggle_connection_failed"} =>
          Setpoints(motor_state') = Setpoints(motor_state)]_vars

C15_Witness ==
    /\ Idle
    /\ op = "toggle_connection"
    /\ connected
    /\ nsess = 2
    /\ Setpoints(motor_state) = TestSetpoints

\* C16 as stated: whenever the periodic send is scheduled, its interval is at
\* least 0.01 s.
C16_IntervalFloor ==
    \A e \in EventIds :
        clock[e].kind = "on" =>
            /\ ~IsNaN(clock[e].val)
            /\ RatLE(IntervalFloor, clock[e].val)

\* toggle_continuous is called with the periodic send off and a text that
\* float() rejects
MalformedToggle ==
    /\ op' = "toggle_continuous"
    /\ ~continuous_active
    /\ ~PyFloat(interval_text).ok

\* C17 as stated: an interval text that is no number is resolved by clamping:
\* toggle_continuous starts the periodic send at the 0.01 s floor.
C17_MalformedClamped ==
    [][MalformedToggle =>
          /\ continuous_active'
          /\ continuous_event' # 0
          /\ clock'[continuous_event'] = [kind |-> "on", val |-> IntervalFloor]]_vars

\* C17 amended: an interval text that is no number is rejected:
\* toggle_continuous logs "Invalid interval value", starts nothing
\* (continuous_active stays False, no event is scheduled) and raises nothing.
C17_MalformedRejected ==
    [][MalformedToggle =>
          /\ ret' = "log: Invalid interval value"
          /\ ~continuous_active'
          /\ UNCHANGED <<continuous_event, clock>>]_vars

C17_Witness ==
    /\ op = "toggle_continuous"
    /\ ret = "log: Invalid interval value"
    /\ ~PyFloat(interval_text).ok
    /\ ~continuous_active

\* C18: stop_continuous called while continuous_active is False raises
\* nothing, cancels no event and leaves continuous_active, continuous_event,
\* the MotorState and the connection state unchanged; so do the calls made by
\* toggle_connection and on_stop as far as the scheduler is concerned.
C18_StopIsNoOp ==
    [][~continuous_active =>
          /\ op' = "stop_continuous" =>
                /\ ret' = "none"
                /\ UNCHANGED <<schedVars, motor_state, sessVars>>
          /\ op' \in {"toggle_connection", "on_stop"} =>
                UNCHANGED schedVars]_vars

C18_Witness ==
    /\ op = "stop_continuous"
    /\ ret = "none"
    /\ ~continuous_active
    /\ continuous_event = 0
    /\ connected
    /\ Setpoints(motor_state) = TestSetpoints


\* the data of the enter-mode, exit-mode and zero-position commands
SentinelPayloads ==
    {<<255, 255, 255, 255, 255, 255, 255, ModeByte(o)>> : o \in ModeOps}

\* C19 as stated: for all setpoints, in or out of range, the frame pack_cmd
\* sends is never the enter-mode, exit-mode or zero-position payload.
C19_SentinelsDistinct ==
    op = "pack_cmd" =>
        \A i \in 1 .. Len(sends) : sends[i].data \notin SentinelPayloads


\* the telemetry a reply decodes to
FrameTelemetry(m) == Telemetry(unpack_reply(m, MotorState).state)

\* C13 as stated: the three values the status display is given are the three
\* values of one single reply frame, or the defaults, never a mix of fields
\* of two frames.
C13_AtomicSnapshot ==
    shown # NoTriple =>
        \/ shown = Telemetry(MotorState)
        \/ \E o \in PublishReplies : shown = FrameTelemetry(o.msg)


\* the width pack_cmd gives the channel
CmdWidth(ch) == IF ch = "position" THEN 16 ELSE 12

\* the clamped, quantized setpoint of one channel
Quantized(ms, ch) ==
    float_to_uint(Constrain(ms[SetpointField(ch)], Lo(ch), Hi(ch)),
                  Lo(ch), Hi(ch), CmdWidth(ch))

\* C21: command frame bit layout. With pos, vel, kp, kd, torque the clamped
\* quantized setpoints, the frame pack_cmd sends has byte0 = pos[15:8],
\* byte1 = pos[7:0], byte2 = vel[11:4], byte3 = vel[3:0]<<4 | kp[11:8],
\* byte4 = kp[7:0], byte5 = kd[11:4], byte6 = kd[3:0]<<4 | torque[11:8],
\* byte7 = torque[7:0]; every field is recovered whole from its own bits.
C21_FrameLayout ==
    (op = "pack_cmd" /\ argBus = "bus") =>
        /\ Len(sends) = 1
        /\ LET d   == sends[1].data
               pos == Quantized(motor_state, "position")
               vel == Quantized(motor_state, "velocity")
               kp  == Quantized(motor_state, "kp")
               kd  == Quantized(motor_state, "kd")
               tq  == Quantized(motor_state, "torque")
           IN  /\ Len(d) = 8
               /\ d[1] = pos \div 256
               /\ d[2] = pos % 256
               /\ d[3] = vel \div 16
               /\ d[4] = (vel % 16) * 16 + kp \div 256
               /\ d[5] = kp % 256
               /\ d[6] = kd \div 16
               /\ d[7] = (kd % 16) * 16 + tq \div 256
               /\ d[8] = tq % 256
               /\ \A ch \in Channels : CmdField(d, ch) = Quantized(motor_state, ch)

\* a frame whose shared bytes carry bits of both neighbours
C21_Witness ==
    /\ op = "pack_cmd"
    /\ argBus = "bus"
    /\ Len(sends) = 1
    /\ sends[1].data[4] % 16 # 0
    /\ sends[1].data[4] \div 16 # 0
    /\ sends[1].data[7] % 16 # 0
    /\ sends[1].data[7] \div 16 # 0
    /\ sends[1].data[4] # 255
    /\ sends[1].data[7] # 255


FlagPcs == {"disconnect_flag", "on_stop_flag"}

JoinPcs == {"disconnect_join", "on_stop_join"}

ShutdownPcs == {"disconnect_shutdown", "on_stop_shutdown"}

\* no periodic send is scheduled
SchedulerOff == ~continuous_active /\ \A e \in EventIds : clock[e].kind = "off"

\* C23: shutdown ordering. In every disconnect and in on_stop the scheduler
\* is cancelled first, then the stop flag is set, then the bounded join of
\* the poller is made, and only then is shutdown called on the bus; shutdown
\* is never called with the stop flag unset; and whether or not shutdown
\* raises, the disconnect goes on to bus = None and connected = False.
C23_ShutdownOrder ==
    [][/\ (mainPc' \in FlagPcs /\ mainPc' # mainPc) =>
             /\ mainPc = "idle"
             /\ SchedulerOff'
             /\ UNCHANGED <<stop_thread, busShut>>
       /\ (mainPc \in FlagPcs /\ mainPc' # mainPc) =>
             /\ SchedulerOff
             /\ stop_thread'
             /\ mainPc' \in (IF status_thread # 0 THEN JoinPcs ELSE ShutdownPcs)
             /\ UNCHANGED busShut
       /\ (mainPc \in JoinPcs /\ mainPc' # mainPc) =>
             /\ stop_thread
             /\ mainPc' \in ShutdownPcs
             /\ UNCHANGED busShut
       /\ busShut' # busShut =>
             /\ mainPc \in ShutdownPcs
             /\ stop_thread
             /\ SchedulerOff
       /\ (mainPc = "disconnect_shutdown" /\ mainPc' # mainPc) =>
             mainPc' = "disconnect_clear"
       /\ (mainPc = "disconnect_clear" /\ mainPc' # mainPc) =>
             /\ mainPc' = "idle"
             /\ ~connected'
             /\ app_bus' = 0]_vars

\* a disconnect whose shutdown raised has completed
C23_Witness ==
    /\ Idle
    /\ op = "toggle_connection"
    /\ ~connected
    /\ app_bus = 0
    /\ shutRaised
    /\ stop_thread
    /\ \E b \in Sessions : busShut[b] = 1


\* C24: the poller loop swallows per-iteration failures. A receive that times
\* out, a receive that raises and a reply that does not decode send the
\* thread back to the top of its loop with the telemetry unchanged; the
\* thread ends only at the loop test, and only with the stop flag set.
C24_PollerSwallows ==
    [][\A t \in Sessions :
          /\ (tpc[t] = "recv" /\ tpc'[t] # "recv") =>
                /\ tpc'[t] \in {"while", "store_p"}
                /\ Telemetry(motor_state') = Telemetry(motor_state)
          /\ (tpc[t] = "call" /\ tpc'[t] # "call") =>
                /\ tpc'[t] \in {"while", "recv"}
                /\ Telemetry(motor_state') = Telemetry(motor_state)
          /\ (tpc'[t] = "done" /\ tpc[t] # "done") =>
                /\ tpc[t] = "while"
                /\ stop_thread]_vars

\* after a receive that failed the thread is at the top of its loop, alive,
\* with the telemetry of an earlier reply still there
C24_Witness ==
    /\ recvLog = "mixed"
    /\ iterated
    /\ ~stop_thread
    /\ tpc[1] = "while"
    /\ Telemetry(motor_state) = FrameTelemetry(TestStatusReply)


StorePcs == {"store_p", "store_v", "store_t"}

\* C25: telemetry is single-writer. p_out, v_out and t_out change only in the
\* stores of the poller's unpack_reply; every step of the main thread -- a
\* mode command, on_send_command, a scheduler tick, starting or stopping the
\* scheduler, connecting, moving a slider -- leaves all three unchanged.
C25_SingleWriter ==
    [][/\ tpc' = tpc => Telemetry(motor_state') = Telemetry(motor_state)
       /\ Telemetry(motor_state') # Telemetry(motor_state) =>
             \E t \in Sessions : tpc[t] \in StorePcs /\ tpc'[t] # tpc[t]]_vars

\* a tick has sent the sliders' setpoints and the telemetry of the reply
\* decoded before it is still there
C25_Witness ==
    /\ op = "continuous_update"
    /\ ret = "True"
    /\ Setpoints(motor_state) = TestSetpoints
    /\ Telemetry(motor_state) = FrameTelemetry(TestStatusReply)

\* a step of the Clock calling continuous_update
TickStep == mainPc = "idle" /\ mainPc' = "idle" /\ op' = "continuous_update"

\* C26: every scheduler tick taken while connected hands exactly one frame to
\* the bus, and that frame is the encoding of the slider values at that tick,
\* which the tick also stores as the setpoints (last write wins); a tick whose
\* send raises still makes one send and no second attempt, and no tick leaves
\* a frame behind for a later one.
C26_TickSendsCurrent ==
    [][(TickStep /\ connected /\ app_bus # 0) =>
          /\ Len(sends') = 1
          /\ sends'[1].data = pack_buf(sliders)
          /\ Setpoints(motor_state') = sliders
          /\ sendRaised' => ret' = "False"
          /\ UNCHANGED <<sliders, schedVars, sessVars>>]_vars

\* a tick after the sliders were moved off their defaults, whose one send
\* raised
C26_Witness ==
    /\ op = "continuous_update"
    /\ connected
    /\ continuous_active
    /\ sliders = TestSetpoints
    /\ Len(sends) = 1
    /\ sends[1].data = pack_buf(TestSetpoints)
    /\ sendRaised
    /\ ret = "False"

\* the handlers that call a sending function of motor.py
SendHandlers ==
    {"on_enter_mode", "on_exit_mode", "on_zero_position", "on_send_command",
     "continuous_update"}

\* a step of one of the sending handlers
SendStep == mainPc = "idle" /\ mainPc' = "idle" /\ op' \in SendHandlers

\* C27: no frame is sent while disconnected. A step hands a frame to the bus
\* only if it is a step of enter mode, exit mode, zero position, send command
\* or the scheduler tick taken with connected True and bus not None; such a
\* handler run while disconnected sends nothing and stores no setpoint, and
\* no other step sends. So from the end of a disconnect to the next successful
\* connect no send occurs, a live scheduler event included.
C27_NoSendDisconnected ==
    [][/\ (SendStep /\ ~(connected /\ app_bus # 0)) =>
             /\ sends' = <<>>
             /\ ~sendRaised'
             /\ motor_state' = motor_state
       /\ ~SendStep => sends' \in {sends, <<>>}
       /\ (sends' # <<>> /\ sends' # sends) =>
             /\ connected' /\ app_bus' # 0
             /\ busShut[app_bus] = 0]_vars

\* after a completed disconnect the scheduler was started again and its tick
\* ran with the sliders moved: nothing was sent
C27_Witness ==
    /\ op = "continuous_update"
    /\ ~connected
    /\ app_bus = 0
    /\ nsess >= 1
    /\ continuous_active
    /\ sliders = TestSetpoints
    /\ sends = <<>>
    /\ Setpoints(motor_state) # sliders

\* C28: connection state consistency. Whenever no toggle_connection call is
\* under way, connected is True exactly when bus is not None; and a connect
\* attempt whose bus open raises returns normally with connected False and bus
\* None, having started no poller thread.
C28_ConnectionConsistent ==
    /\ [](Idle => (connected <=> app_bus # 0))
    /\ [][op' = "toggle_connection_failed" =>
             /\ ~connected' /\ app_bus' = 0
             /\ ret' = "none"
             /\ mainPc' = "idle"
             /\ UNCHANGED <<sessVars, pollVars>>]_vars

\* a bus open that failed after an earlier session was connected and
\* disconnected
C28_Witness ==
    /\ op = "toggle_connection_failed"
    /\ ret = "none"
    /\ Idle
    /\ nsess >= 1
    /\ ~connected
    /\ app_bus = 0
    /\ busShut[1] = 1

\* the periodic events scheduled and not cancelled
LiveEvents == {e \in EventIds : clock[e].kind = "on"}

\* the positions of the main thread from the stop_continuous() call of a
\* disconnect or of on_stop onwards
StoppingPcs ==
    FlagPcs \cup JoinPcs \cup ShutdownPcs \cup {"disconnect_clear", "stopped"}

\* C29: scheduler state consistency. continuous_active is True exactly when a
\* scheduled periodic event exists that has not been cancelled, and then
\* continuous_event is that event and the only live one; when it is False
\* continuous_event is None. From its first statement on, every disconnect
\* and on_stop has the scheduler inactive with its event cancelled, and a
\* completed disconnect leaves it so.
C29_SchedulerConsistent ==
    /\ continuous_active <=> LiveEvents # {}
    /\ Cardinality(LiveEvents) <= 1
    /\ continuous_active => LiveEvents = {continuous_event}
    /\ ~continuous_active => continuous_event = 0
    /\ mainPc \in StoppingPcs => SchedulerOff
    /\ (Idle /\ op = "toggle_connection" /\ ~connected) => SchedulerOff

\* a disconnect made with the periodic send running has completed: the tick
\* had stored the sliders, and the scheduler is off
C29_Witness ==
    /\ Idle
    /\ op = "toggle_connection"
    /\ ~connected
    /\ ~shutRaised
    /\ nsess >= 1
    /\ SchedulerOff
    /\ continuous_event = 0
    /\ interval_text = "0.005"
    /\ Setpoints(motor_state) = TestSetpoints

\* the status_update_thread loops that have started and not returned
LivePollers == {t \in Sessions : Alive(t)}

\* C30 as stated: across every sequence of connect, disconnect and reconnect,
\* a disconnect whose bounded join returns before the old poller has read the
\* stop flag included, at most one status_update_thread loop is alive.
C30_OnePoller == Cardinality(LivePollers) <= 1

\* C31 as stated: for arbitrary setpoint values pack_cmd builds its frame
\* without failing, the quantized position is in 0..65535, velocity, kp, kd
\* and torque are each in 0..4095, and each of the 8 bytes is in 0..255.
C31_FieldsFit ==
    (op = "pack_cmd" /\ argBus = "bus") =>
        /\ ret # "raise"
        /\ Len(sends) = 1
        /\ \A ch \in Channels :
              /\ Quantized(motor_state, ch) >= 0
              /\ Quantized(motor_state, ch) <= Pow2(CmdWidth(ch)) - 1
        /\ \A i \in 1..8 : sends[1].data[i] \in 0..255

\* C32 as stated: in every interleaving of the poller with a disconnect or
\* with on_stop, when a poller thread evaluates self.bus.recv(timeout=0.1) the
\* bus is not None, and shutdown has not been called on the Bus object the
\* receive is issued on.
C32_NoUseAfterShutdown ==
    [][\A t \in Sessions :
          (tpc[t] = "call" /\ tpc'[t] # "call") =>
              /\ app_bus # 0
              /\ busShut[app_bus] = 0]_vars

====
